---- MODULE Spec2Model ----
(***************************************************************************)
(* augmented-rpc: the HTTP request pipeline of the caching JSON-RPC proxy. *)
(*                                                                         *)
(* The repository holds two builds of the proxy: src/app.js (in-memory     *)
(* cache only) and src/unnamed/part_000 (the same pipeline with an         *)
(* optional sqlite backing, selected by the DB_FILE environment variable). *)
(* The variable `build` fixes which one runs; every handler below is       *)
(* translated from both files and branches on `build` where they differ.   *)
(*                                                                         *)
(* Time is the value of Date.now() in milliseconds.  The event loop is     *)
(* single threaded: an action is the piece of a handler that runs between  *)
(* two suspension points (await of a timer, of the sqlite driver, of       *)
(* axios).                                                                 *)
(***************************************************************************)
EXTENDS Integers, Sequences, FiniteSets, TLC

(***************************************************************************)
(* Bounds of the model.                                                    *)
(***************************************************************************)
\* number of POST / requests the clients send
MaxReqs == 2
\* number of requests where the upstream may fail (SpecRetry)
MaxRetryReqs == 2
\* number of requests of one burst of identical requests (SpecBurst)
MaxBurst == 3
\* number of requests, and of lines on stdout, where stats are printed (SpecStats)
MaxStatsReqs == 2
MaxPrints == 2
\* requests of SpecLive
MaxLiveReqs == 2
\* requests of SpecProv
MaxProvReqs == 3

(***************************************************************************)
(* Program constants.                                                      *)
(***************************************************************************)
DUPLICATE_DELAY_TRIGGER_THRESHOLD_MS == 1000
DUPLICATE_MIN_DELAY_MS == 500
DUPLICATE_RANDOM_MAX_EXTRA_DELAY_MS == 1000
\* process.env.CACHE_MAX_AGE || 10  (seconds)
CACHE_MAX_AGE == 10
\* upstreamHttpRequest(rpc, reqBody, nrRetries = 10, initialTimeoutMs = 2000)
NR_RETRIES == 10
INITIAL_TIMEOUT_MS == 2000

\* the JS values null and undefined, and the number Infinity
NULL == "null"
UNDEFINED == "undefined"
Infinity == -1

\* the three programs the two source files give
Builds == {"app_js", "part_000", "part_000_db"}

\* Math.random() is sampled at s/RandomScale for s in RandomSamples
RandomScale == 1000
RandomSamples == {0, 999}

(***************************************************************************)
(* Request bodies.  A param is a JS value of which the code reads only     *)
(* typeof and the property names; JSON.stringify writes both out.  The     *)
(* value null has typeof "object" and no properties to look up.            *)
(***************************************************************************)
StrParam(s) == [typeof |-> "string", keys |-> <<>>, text |-> s]
ObjParam(ks) == [typeof |-> "object", keys |-> ks, text |-> ""]
NullParam == [typeof |-> "object", keys |-> <<>>, text |-> "null"]
IsNullParam(p) == p = NullParam

Bodies ==
    { [method |-> "eth_chainId", params |-> <<>>],
      [method |-> "eth_blockNumber", params |-> <<>>],
      [method |-> "eth_getTransactionReceipt", params |-> <<StrParam("0xtx")>>],
      [method |-> "eth_call", params |-> <<ObjParam(<<"to">>), ObjParam(<<"blockHash">>)>>],
      [method |-> "eth_call", params |-> <<ObjParam(<<"to">>), NullParam>>] }

\* results an upstream answer may carry: a value, null, or no result field
Results == {"0x1", "0x2", NULL, UNDEFINED}

\* JSON.stringify of one param / of the params array
StringifyParam(p) ==
    IF p.typeof = "string" THEN <<"str", p.text>>
    ELSE IF IsNullParam(p) THEN <<"null">>
    ELSE <<"obj">> \o p.keys

JSONstringifyParams(params) == [i \in 1..Len(params) |-> StringifyParam(params[i])]

\* a key that leaves the params out
getCacheKeyOfMethod(body) == <<body.method, <<>>>>

\* getCacheKey: `${req.body.method}${JSON.stringify(req.body.params)}`
getCacheKey(body) == <<body.method, JSONstringifyParams(body.params)>>

Keys == {getCacheKey(b) : b \in Bodies}

(***************************************************************************)
(* State.                                                                  *)
(***************************************************************************)
VARIABLES
    build,               \* which program runs (fixed at start)
    now,                 \* Date.now()
    cache,               \* const cache = new Map(): key -> {val, ts, readCnt, writeCnt}
    dbData,              \* rows of the sqlite table data(key, val, ts)
    dbQueue,             \* INSERT OR REPLACE statements handed to db.run, not yet run
    duplicateDetector,   \* const duplicateDetector = new Map(): key -> timestamp
    httpReqCnt,
    httpUpstreamResCnt,
    httpCacheResCnt,
    handler,             \* the invocations of the app.post("/") handler
    running,             \* the process has not exited
    stdout,              \* the stats printed by printStats, one entry per call
    stderr,              \* the console.error lines of the db callbacks
    dbGetCount           \* SELECT COUNT(*) queries of printStats not yet answered

vars == <<build, now, cache, dbData, dbQueue, duplicateDetector,
          httpReqCnt, httpUpstreamResCnt, httpCacheResCnt, handler,
          running, stdout, stderr, dbGetCount>>

\* the requests received so far
ReqIds == DOMAIN handler

NoRes == [status |-> 0, id |-> 0, result |-> UNDEFINED, error |-> <<>>]

\* a handler invocation as it starts: req.body = body with id reqId
Started(body, reqId) ==
    [pc |-> "start", body |-> body, id |-> reqId,
     arrivedAt |-> now, cacheKey |-> getCacheKey(body), delayMs |-> 0, wakeAt |-> 0,
     cacheMaxAgeMs |-> 0, nrRetries |-> 0, initialTimeoutMs |-> 0,
     attempts |-> 0, issuedAt |-> 0, waits |-> <<>>, forwardedErr |-> <<>>,
     failedAt |-> 0, rpcRes |-> NoRes,
     servedBy |-> "", res |-> NoRes]

Init ==
    /\ build \in Builds
    /\ now = 0
    /\ cache = <<>>
    /\ dbData = <<>>
    /\ dbQueue = <<>>
    /\ duplicateDetector = <<>>
    /\ httpReqCnt = 0
    /\ httpUpstreamResCnt = 0
    /\ httpCacheResCnt = 0
    /\ handler = <<>>
    /\ running = TRUE
    /\ stdout = <<>>
    /\ stderr = {}
    /\ dbGetCount = 0

\* db !== undefined
dbDefined == build = "part_000_db"

(***************************************************************************)
(* Duplicate detector.                                                     *)
(***************************************************************************)
\* the comparison turned around: Date.now() - prevCallTs > THRESHOLD
IsDuplicateInverted(key) ==
    /\ key \in DOMAIN duplicateDetector
    /\ now - duplicateDetector[key] > DUPLICATE_DELAY_TRIGGER_THRESHOLD_MS

\* duplicateDetector.has(cacheKey) && Date.now() - prevCallTs < THRESHOLD
IsDuplicate(key) ==
    /\ key \in DOMAIN duplicateDetector
    /\ now - duplicateDetector[key] < DUPLICATE_DELAY_TRIGGER_THRESHOLD_MS

\* DUPLICATE_MIN_DELAY_MS + Math.floor(Math.random() * MAX_EXTRA), Math.random() = s/RandomScale
DelayMs(s) ==
    DUPLICATE_MIN_DELAY_MS + ((s * DUPLICATE_RANDOM_MAX_EXTRA_DELAY_MS) \div RandomScale)

(***************************************************************************)
(* Cache.                                                                  *)
(***************************************************************************)
\* the max age the handler passes to getResponseFromCache
cacheMaxAgeMs(method) ==
    IF build = "app_js"
    THEN (IF method \in {"eth_chainId", "net_version"} THEN Infinity ELSE CACHE_MAX_AGE * 1000)
    ELSE (IF method \in {"eth_chainId", "net_version", "eth_getTransactionReceipt"}
          THEN Infinity ELSE CACHE_MAX_AGE * 1000)

\* Date.now() - ts <= maxAgeMs, maxAgeMs possibly Infinity
Fresh(ts, maxAgeMs) == maxAgeMs = Infinity \/ now - ts <= maxAgeMs

\* cache.set(key, { ...cache.get(key), readCnt: cache.get(key).readCnt+1 })
CountRead(key) == [cache EXCEPT ![key].readCnt = @ + 1]

\* a response whose id is lost
ResponseIdDropped(reqId, val) == [defined |-> TRUE, id |-> 0, result |-> val]

\* the value a cached response carries, or nothing
NoResponse == [defined |-> FALSE, id |-> 0, result |-> UNDEFINED]
Response(reqId, val) == [defined |-> TRUE, id |-> reqId, result |-> val]

\* part_000: if (val !== undefined && val !== null) return {jsonrpc, id, result}
ResponseUnlessNull(val, reqId) ==
    IF val # UNDEFINED /\ val # NULL THEN Response(reqId, val) ELSE NoResponse

\* getResponseFromCache, the part that runs without suspension (the in-memory map):
\* the response returned and the map as it is left
getResponseFromCache(key, maxAgeMs, reqId) ==
    IF key \in DOMAIN cache /\ Fresh(cache[key].ts, maxAgeMs)
    THEN [response |-> IF build = "app_js"
                       THEN Response(reqId, cache[key].val)
                       ELSE ResponseUnlessNull(cache[key].val, reqId),
          cache |-> CountRead(key)]
    ELSE [response |-> NoResponse, cache |-> cache]

\* JSON.stringify(val) as bound to the INSERT, JSON.parse(row.val)
JSONstringify(val) == IF val = UNDEFINED THEN <<>> ELSE <<val>>
JSONparse(text) == IF text = <<>> THEN NULL ELSE text[1]

\* typeof param === 'object' && 'blockHash' in param, for a param that is not null
HasBlockHash(p) ==
    /\ p.typeof = "object"
    /\ \E j \in 1..Len(p.keys) : p.keys[j] = "blockHash"

\* req.body.params.some(param => typeof param === 'object' && 'blockHash' in param):
\* the params are tested in order up to the first that satisfies the test; the
\* `in` operator throws a TypeError when its right operand is null
SomeBlockHash(params) ==
    LET decisive == {i \in 1..Len(params) : IsNullParam(params[i]) \/ HasBlockHash(params[i])}
    IN  IF decisive = {} THEN "false"
        ELSE LET i == CHOOSE i \in decisive : \A j \in decisive : i <= j
             IN  IF IsNullParam(params[i]) THEN "throws" ELSE "true"

\* the cache-write predicate of the handler, where it evaluates to a boolean
ShouldCache(body) ==
    IF build = "app_js"
    THEN body.method \in {"eth_chainId", "eth_blockNumber", "net_version",
                          "eth_getTransactionReceipt"}
    ELSE \/ body.method \in {"eth_chainId", "eth_blockNumber", "net_version"}
         \/ /\ body.method = "eth_call"
            /\ SomeBlockHash(body.params) = "true"

\* the cache-write predicate throws
ShouldCacheThrows(body) ==
    /\ build # "app_js"
    /\ body.method \notin {"eth_chainId", "eth_blockNumber", "net_version"}
    /\ body.method = "eth_call"
    /\ SomeBlockHash(body.params) = "throws"

\* a write that starts the read counter anew
newValueResettingReads(key, val) ==
    [val |-> val, ts |-> now,
     readCnt |-> 0,
     writeCnt |-> IF key \in DOMAIN cache THEN cache[key].writeCnt + 1 ELSE 1]

\* writeResponseToCache: const newValue = {...}
newValue(key, val) ==
    [val |-> val, ts |-> now,
     readCnt |-> IF key \in DOMAIN cache THEN cache[key].readCnt ELSE 0,
     writeCnt |-> IF key \in DOMAIN cache THEN cache[key].writeCnt + 1 ELSE 1]

(***************************************************************************)
(* The app.post("/") handler, cut at its suspension points.                *)
(***************************************************************************)
\* the handlers with invocation r in state h (r is a running one or the next to start)
Put(r, h) == IF r \in DOMAIN handler THEN [handler EXCEPT ![r] = h] ELSE Append(handler, h)

\* From the cache lookup's return to the next suspension: a cached response is
\* sent and counted, otherwise upstreamHttpRequest(rpc, req.body) is entered
\* and its first axios.post is issued.
AfterLookup(r, h, cachedResponse, cacheLeft) ==
    /\ cache' = cacheLeft
    /\ IF cachedResponse.defined
       THEN /\ handler' = Put(r,
                   [h EXCEPT !.pc = "done", !.servedBy = "cache",
                             !.res = [status |-> 200, id |-> cachedResponse.id,
                                      result |-> cachedResponse.result,
                                      error |-> <<>>]])
            /\ httpCacheResCnt' = httpCacheResCnt + 1
            /\ httpReqCnt' = httpReqCnt + 1
       ELSE /\ handler' = Put(r,
                   [h EXCEPT !.pc = "upstream", !.nrRetries = NR_RETRIES,
                             !.initialTimeoutMs = INITIAL_TIMEOUT_MS,
                             !.attempts = 1, !.issuedAt = now])
            /\ UNCHANGED <<httpCacheResCnt, httpReqCnt>>
    /\ UNCHANGED httpUpstreamResCnt

\* From duplicateDetector.set(cacheKey, Date.now()) to the next suspension.
AfterThrottle(r, h) ==
    LET maxAgeMs == cacheMaxAgeMs(h.body.method)
        h1 == [h EXCEPT !.cacheMaxAgeMs = maxAgeMs]
    IN  /\ duplicateDetector' = (h.cacheKey :> now) @@ duplicateDetector
        /\ IF dbDefined /\ h.cacheKey \notin DOMAIN cache
           THEN \* await getFromDb(key)
                /\ handler' = Put(r, [h1 EXCEPT !.pc = "dbread"])
                /\ UNCHANGED <<cache, httpCacheResCnt, httpReqCnt, httpUpstreamResCnt>>
           ELSE LET got == getResponseFromCache(h.cacheKey, maxAgeMs, h.id)
                IN  AfterLookup(r, h1, got.response, got.cache)

\* A POST / request arrives: the handler runs to its first suspension.
Receive(r, body) ==
    /\ running
    /\ r = Len(handler) + 1
    /\ LET h == Started(body, r)
       IN  IF IsDuplicate(h.cacheKey)
           THEN \E s \in RandomSamples :
                  /\ handler' = Append(handler,
                         [h EXCEPT !.pc = "delay", !.delayMs = DelayMs(s),
                                   !.wakeAt = now + DelayMs(s)])
                  /\ UNCHANGED <<cache, duplicateDetector, httpReqCnt,
                                 httpUpstreamResCnt, httpCacheResCnt>>
           ELSE AfterThrottle(r, h)
    /\ UNCHANGED <<build, now, dbData, dbQueue, running, stdout, stderr, dbGetCount>>

\* setTimeout(resolve, delayMs) fires: not before delayMs has passed
DelayElapsed(r) ==
    /\ running
    /\ handler[r].pc = "delay"
    /\ now >= handler[r].wakeAt
    /\ AfterThrottle(r, handler[r])
    /\ UNCHANGED <<build, now, dbData, dbQueue, running, stdout, stderr, dbGetCount>>

\* a db read that, when it fails, fails the request with status 500
DbGetDoneFailing(r, failed) ==
    /\ running
    /\ handler[r].pc = "dbread"
    /\ LET h == handler[r]
           key == h.cacheKey
           rowFound == ~failed /\ key \in DOMAIN dbData
           typeError == rowFound /\ key \notin DOMAIN cache
           val == IF rowFound /\ key \in DOMAIN cache
                     /\ Fresh(cache[key].ts, h.cacheMaxAgeMs)
                  THEN JSONparse(dbData[key].val)
                  ELSE UNDEFINED
       IN  /\ IF failed
              THEN /\ handler' = [handler EXCEPT ![r] =
                          [h EXCEPT !.pc = "done", !.servedBy = "error",
                                    !.res = [status |-> 500, id |-> 0,
                                             result |-> UNDEFINED,
                                             error |-> <<"DB read error">>]]]
                   /\ httpReqCnt' = httpReqCnt + 1
                   /\ UNCHANGED <<cache, httpCacheResCnt, httpUpstreamResCnt>>
              ELSE AfterLookup(r, h, ResponseUnlessNull(val, h.id), cache)
           /\ stderr' = IF failed \/ typeError
                         THEN stderr \cup {<<"DB read error", r>>}
                         ELSE stderr
    /\ UNCHANGED <<build, now, dbData, dbQueue, duplicateDetector,
                   running, stdout, dbGetCount>>

\* getFromDb(key) settles: with the row, with no row, or rejected
DbGetDone(r, failed) ==
    /\ running
    /\ handler[r].pc = "dbread"
    /\ LET h == handler[r]
           key == h.cacheKey
           rowFound == ~failed /\ key \in DOMAIN dbData
           \* if (row) { if (Date.now() - cache.get(key).ts <= maxAgeMs): cache.get(key)
           \* is undefined unless the map has the key; the TypeError is caught
           typeError == rowFound /\ key \notin DOMAIN cache
           val == IF rowFound /\ key \in DOMAIN cache
                     /\ Fresh(cache[key].ts, h.cacheMaxAgeMs)
                  THEN JSONparse(dbData[key].val)
                  ELSE UNDEFINED
       IN  /\ AfterLookup(r, h, ResponseUnlessNull(val, h.id), cache)
           \* catch (err) { console.error(`DB read error: ${err.message}`) }
           /\ stderr' = IF failed \/ typeError
                         THEN stderr \cup {<<"DB read error", r>>}
                         ELSE stderr
    /\ UNCHANGED <<build, now, dbData, dbQueue, duplicateDetector,
                   running, stdout, dbGetCount>>

(***************************************************************************)
(* upstreamHttpRequest and the handler's use of its outcome.               *)
(***************************************************************************)
\* the errors axios.post rejects with: an error response, no response, neither
AxiosErrors ==
    { [response |-> "503", request |-> "sent"],
      [response |-> UNDEFINED, request |-> "sent"],
      [response |-> UNDEFINED, request |-> UNDEFINED] }

\* let forwardedErr = "unspecified"; if (err.response) ... else if (err.request) ...
\* JSON.stringify is taken to return for the objects axios attaches to err, as
\* the code takes it to (a throw on a circular object would leave the catch
\* block before the retry)
forwardedErrOf(err) ==
    IF err.response # UNDEFINED THEN <<"response", err.response>>
    ELSE IF err.request # UNDEFINED THEN <<"request", err.request>>
    ELSE <<"unspecified">>

\* a retry loop that is off by one: if (nrRetries >= 0)
MayRetryOffByOne(nrRetries) == nrRetries >= 0

\* if (nrRetries > 0)
MayRetry(nrRetries) == nrRetries > 0

\* a linear backoff: initialTimeoutMs + 2000 in place of initialTimeoutMs*2
NextTimeoutMsLinear(initialTimeoutMs) == initialTimeoutMs + INITIAL_TIMEOUT_MS

\* upstreamHttpRequest(rpc, reqBody, nrRetries-1, initialTimeoutMs*2)
NextTimeoutMs(initialTimeoutMs) == initialTimeoutMs * 2

\* throw Error(forwardErr): no binding named forwardErr exists (the local is
\* forwardedErr), so evaluating the argument throws a ReferenceError
ThrownOnGiveUp(forwardedErr) == <<"ReferenceError", "forwardErr is not defined">>

\* writeResponseToCache(key, val): the statement queued on the db, or the map written
writeResponseToCache(key, val) ==
    IF dbDefined
    THEN /\ dbQueue' = Append(dbQueue, [key |-> key,
                                        val |-> JSONstringify(newValue(key, val).val),
                                        ts |-> newValue(key, val).ts])
         /\ UNCHANGED cache
    ELSE /\ cache' = (key :> newValue(key, val)) @@ cache
         /\ UNCHANGED dbQueue

\* rpcRes.data of a resolved axios.post: the upstream answers the id it was sent
rpcResData(h, result) == [status |-> 200, id |-> h.id, result |-> result, error |-> <<>>]

\* What res.status(500).send(err) does in the handler's catch block when the
\* response has been sent already (the cache-write predicate threw after
\* res.send): the call is ignored and the handler goes on to httpReqCnt++, or
\* it throws in turn and the handler's promise is rejected with nobody to
\* handle it, which the runtime either only reports or ends the process for.
HeadersSentOutcomes == {"ignored", "rejected", "crashed"}

SendAfterSent(again) ==
    /\ httpReqCnt' = IF again = "ignored" THEN httpReqCnt + 1 ELSE httpReqCnt
    /\ running' = (again # "crashed")

\* axios.post resolves with rpcRes.data = {jsonrpc, id, result}
UpstreamResponds(r, result, again) ==
    /\ running
    /\ handler[r].pc = "upstream"
    /\ LET h == handler[r]
           data == rpcResData(h, result)
       IN  /\ httpUpstreamResCnt' = httpUpstreamResCnt + 1
           \* res.send(rpcRes.data)
           /\ handler' = [handler EXCEPT ![r] =
                  [h EXCEPT !.pc = "done", !.servedBy = "upstream",
                            !.issuedAt = 0, !.failedAt = 0,
                            !.rpcRes = data, !.res = data]]
           /\ IF ShouldCacheThrows(h.body)
              THEN \* TypeError, caught by the handler's catch block
                   /\ UNCHANGED <<cache, dbQueue>>
                   /\ SendAfterSent(again)
              ELSE /\ again = "ignored"
                   /\ IF ShouldCache(h.body)
                      THEN writeResponseToCache(h.cacheKey, data.result)
                      ELSE UNCHANGED <<cache, dbQueue>>
                   /\ httpReqCnt' = httpReqCnt + 1
                   /\ UNCHANGED running
    /\ UNCHANGED <<build, now, dbData, duplicateDetector, httpCacheResCnt,
                   stdout, stderr, dbGetCount>>

\* a catch block that counts the failed call as an upstream response
HandlerCatchCounting(r, h, err) ==
    /\ handler' = [handler EXCEPT ![r] =
           [h EXCEPT !.pc = "done", !.servedBy = "error",
                     !.issuedAt = 0, !.failedAt = 0,
                     !.res = [status |-> 500, id |-> 0, result |-> UNDEFINED,
                              error |-> err]]]
    /\ httpReqCnt' = httpReqCnt + 1
    /\ httpUpstreamResCnt' = httpUpstreamResCnt + 1
    /\ UNCHANGED <<cache, dbQueue>>

\* the catch block of the handler: res.status(500).send(err), then httpReqCnt++
HandlerCatch(r, h, err) ==
    /\ handler' = [handler EXCEPT ![r] =
           [h EXCEPT !.pc = "done", !.servedBy = "error",
                     !.issuedAt = 0, !.failedAt = 0,
                     !.res = [status |-> 500, id |-> 0, result |-> UNDEFINED,
                              error |-> err]]]
    /\ httpReqCnt' = httpReqCnt + 1
    /\ UNCHANGED <<cache, dbQueue, httpUpstreamResCnt>>

\* axios.post rejects with err: the catch block of upstreamHttpRequest, and on
\* giving up the catch block of the handler
UpstreamFails(r, err) ==
    /\ running
    /\ handler[r].pc = "upstream"
    /\ LET h == [handler[r] EXCEPT !.forwardedErr = forwardedErrOf(err),
                                   !.failedAt = now]
       IN  IF MayRetry(h.nrRetries)
           THEN \* await new Promise(resolve => setTimeout(resolve, initialTimeoutMs))
                /\ handler' = [handler EXCEPT ![r] =
                       [h EXCEPT !.pc = "backoff",
                                 !.wakeAt = now + h.initialTimeoutMs,
                                 !.waits = Append(@, h.initialTimeoutMs)]]
                /\ UNCHANGED <<cache, dbQueue, httpReqCnt, httpUpstreamResCnt>>
           ELSE HandlerCatch(r, h, ThrownOnGiveUp(h.forwardedErr))
    /\ UNCHANGED <<build, now, dbData, duplicateDetector, httpCacheResCnt,
                   running, stdout, stderr, dbGetCount>>

\* the backoff timer fires: the recursive call issues the next axios.post
BackoffElapsed(r) ==
    /\ running
    /\ handler[r].pc = "backoff"
    /\ now >= handler[r].wakeAt
    /\ handler' = [handler EXCEPT ![r] =
           [@ EXCEPT !.pc = "upstream", !.forwardedErr = <<>>, !.nrRetries = @ - 1,
                     !.initialTimeoutMs = NextTimeoutMs(@),
                     !.attempts = @ + 1, !.issuedAt = now]]
    /\ UNCHANGED <<build, now, cache, dbData, dbQueue, duplicateDetector,
                   httpReqCnt, httpUpstreamResCnt, httpCacheResCnt,
                   running, stdout, stderr, dbGetCount>>

\* a db.run callback that answers a failed write with status 500
DbRunDoneRetracting(failed) ==
    /\ running
    /\ dbQueue # <<>>
    /\ LET st == Head(dbQueue)
       IN  /\ dbData' = IF failed THEN dbData
                         ELSE (st.key :> [val |-> st.val, ts |-> st.ts]) @@ dbData
           /\ stderr' = IF failed THEN stderr \cup {<<"db.run", st.key>>} ELSE stderr
           /\ handler' = IF failed
                         THEN [r \in DOMAIN handler |->
                                 IF handler[r].cacheKey = st.key /\ handler[r].pc = "done"
                                 THEN [handler[r] EXCEPT !.res.status = 500]
                                 ELSE handler[r]]
                         ELSE handler
    /\ dbQueue' = Tail(dbQueue)
    /\ UNCHANGED <<build, now, cache, duplicateDetector, httpReqCnt,
                   httpUpstreamResCnt, httpCacheResCnt,
                   running, stdout, dbGetCount>>

\* the sqlite driver runs the oldest queued INSERT OR REPLACE; on an error the
\* callback logs it and the row is not written
DbRunDone(failed) ==
    /\ running
    /\ dbQueue # <<>>
    /\ LET st == Head(dbQueue)
       IN  /\ dbData' = IF failed THEN dbData
                         ELSE (st.key :> [val |-> st.val, ts |-> st.ts]) @@ dbData
           \* if (err) return console.error(err.message)
           /\ stderr' = IF failed THEN stderr \cup {<<"db.run", st.key>>} ELSE stderr
    /\ dbQueue' = Tail(dbQueue)
    /\ UNCHANGED <<build, now, cache, duplicateDetector, httpReqCnt,
                   httpUpstreamResCnt, httpCacheResCnt, handler,
                   running, stdout, dbGetCount>>

(***************************************************************************)
(* printStats: GET /printstats and SIGINT.                                 *)
(***************************************************************************)
\* the console.log lines of one printStats call, with what triggered the call;
\* the per-key lines are printed for the in-memory cache only
StatsLines(trigger) ==
    [trigger |-> trigger,
     httpReqCnt |-> httpReqCnt,
     httpUpstreamResCnt |-> httpUpstreamResCnt,
     httpCacheResCnt |-> httpCacheResCnt,
     cacheStats |-> IF dbDefined THEN <<>>
                    ELSE [k \in DOMAIN cache |-> <<cache[k].readCnt, cache[k].writeCnt>>]]

\* printStats() up to its return: the counters are printed, with a db the
\* SELECT COUNT(*) is handed to the driver
printStats(trigger) ==
    /\ stdout' = Append(stdout, StatsLines(trigger))
    /\ dbGetCount' = IF dbDefined THEN dbGetCount + 1 ELSE dbGetCount

\* whether the function registered for GET /printstats ends with process.exit():
\* app.js registers printStats, which does; part_000 registers printStats, which
\* does not (there printStatsAndExit does)
PrintStatsExits == build = "app_js"

\* app.get("/printstats", printStats)
GetPrintStats ==
    /\ running
    /\ printStats("GET /printstats")
    /\ running' = ~PrintStatsExits
    /\ UNCHANGED <<build, now, cache, dbData, dbQueue, duplicateDetector, httpReqCnt,
                   httpUpstreamResCnt, httpCacheResCnt, handler, stderr>>

\* process.on("SIGINT", ...): printStats, then process.exit()
Sigint ==
    /\ running
    /\ printStats("SIGINT")
    /\ running' = FALSE
    /\ UNCHANGED <<build, now, cache, dbData, dbQueue, duplicateDetector, httpReqCnt,
                   httpUpstreamResCnt, httpCacheResCnt, handler, stderr>>

\* the callback of db.get(`SELECT COUNT(*) ...`): if (err) throw err, which
\* nothing catches, else the count is printed
DbCountDone(failed) ==
    /\ running
    /\ dbGetCount > 0
    /\ dbGetCount' = dbGetCount - 1
    /\ running' = ~failed
    /\ stdout' = IF failed THEN stdout
                 ELSE Append(stdout, [trigger |-> "db.get",
                                      count |-> Cardinality(DOMAIN dbData)])
    /\ UNCHANGED <<build, now, cache, dbData, dbQueue, duplicateDetector, httpReqCnt,
                   httpUpstreamResCnt, httpCacheResCnt, handler, stderr>>

(***************************************************************************)
(* Time.  The clock is observed at the instants at which a timer is due or *)
(* a comparison of the code against Date.now() changes its outcome.  The   *)
(* event loop is idle enough to run a timer callback in the millisecond it *)
(* is due: the clock does not pass a timer that has not fired.             *)
(***************************************************************************)
TimersOnTime(t) ==
    \A r \in ReqIds : handler[r].pc \in {"delay", "backoff"} => t <= handler[r].wakeAt

Instants ==
    {handler[r].wakeAt : r \in {q \in ReqIds : handler[q].pc \in {"delay", "backoff"}}}
    \cup {duplicateDetector[k] + d :
            k \in DOMAIN duplicateDetector,
            d \in {DUPLICATE_DELAY_TRIGGER_THRESHOLD_MS - 1,
                   DUPLICATE_DELAY_TRIGGER_THRESHOLD_MS}}
    \cup {cache[k].ts + d :
            k \in DOMAIN cache, d \in {CACHE_MAX_AGE * 1000, CACHE_MAX_AGE * 1000 + 1}}

Advance(t) ==
    /\ running
    /\ t > now
    /\ TimersOnTime(t)
    /\ now' = t
    /\ UNCHANGED <<build, cache, dbData, dbQueue, duplicateDetector, httpReqCnt,
                   httpUpstreamResCnt, httpCacheResCnt, handler,
                   running, stdout, stderr, dbGetCount>>

(***************************************************************************)
(* Specifications.  The actions are the same in all of them; they differ   *)
(* in what the clients and the upstream are allowed to do.                 *)
(***************************************************************************)
\* some request is being handled, or fewer than n have been received
Outstanding(n) == Len(handler) < n \/ \E r \in ReqIds : handler[r].pc # "done"

\* Spec: MaxReqs requests with any bodies, an upstream that answers every call,
\* a db whose reads and writes may fail (in the other specifications they do not)
Next ==
    \/ \E r \in 1..MaxReqs, body \in Bodies : Receive(r, body)
    \/ \E r \in ReqIds : DelayElapsed(r)
    \/ \E r \in ReqIds, failed \in BOOLEAN : DbGetDone(r, failed)
    \/ \E r \in ReqIds, result \in Results, again \in HeadersSentOutcomes :
          UpstreamResponds(r, result, again)
    \/ \E failed \in BOOLEAN : DbRunDone(failed)
    \/ \E t \in Instants : Outstanding(MaxReqs) /\ Advance(t)

Spec == Init /\ [][Next]_vars

\* SpecRetry: one client that sends MaxRetryReqs requests, all with the body of
\* the first and each after the response to the one before, and an upstream
\* that may fail any call; a call that fails is rejected in the millisecond it
\* is made (connection refused)
NextRetry ==
    \/ \E r \in 1..MaxRetryReqs, body \in Bodies :
          /\ r = Len(handler) + 1
          /\ r > 1 => body = handler[1].body /\ handler[r - 1].pc = "done"
          /\ Receive(r, body)
    \/ \E r \in ReqIds : DelayElapsed(r)
    \/ \E r \in ReqIds : DbGetDone(r, FALSE)
    \/ \E r \in ReqIds, result \in Results, again \in HeadersSentOutcomes :
          UpstreamResponds(r, result, again)
    \/ \E r \in ReqIds, err \in AxiosErrors :
          handler[r].issuedAt = now /\ UpstreamFails(r, err)
    \/ \E r \in ReqIds : BackoffElapsed(r)
    \/ DbRunDone(FALSE)
    \/ \E t \in Instants : Outstanding(MaxRetryReqs) /\ Advance(t)

SpecRetry == Init /\ [][NextRetry]_vars

\* SpecBurst: MaxBurst requests, all with the body of the first
NextBurst ==
    \/ \E r \in 1..MaxBurst, body \in Bodies :
          /\ r = Len(handler) + 1
          /\ r > 1 => body = handler[1].body
          /\ Receive(r, body)
    \/ \E r \in ReqIds : DelayElapsed(r)
    \/ \E r \in ReqIds : DbGetDone(r, FALSE)
    \/ \E r \in ReqIds, again \in HeadersSentOutcomes : UpstreamResponds(r, "0x1", again)
    \/ DbRunDone(FALSE)
    \/ \E t \in Instants : Outstanding(MaxBurst) /\ Advance(t)

SpecBurst == Init /\ [][NextBurst]_vars

\* SpecStats: one client that sends MaxStatsReqs requests, each after the
\* response to the one before, while GET /printstats requests and a SIGINT may
\* come in at any time
NextStats ==
    \/ \E r \in 1..MaxStatsReqs, body \in Bodies :
          /\ r = Len(handler) + 1
          /\ r > 1 => handler[r - 1].pc = "done"
          /\ Receive(r, body)
    \/ \E r \in ReqIds : DelayElapsed(r)
    \/ \E r \in ReqIds : DbGetDone(r, FALSE)
    \/ \E r \in ReqIds, again \in HeadersSentOutcomes : UpstreamResponds(r, "0x1", again)
    \/ DbRunDone(FALSE)
    \/ Len(stdout) < MaxPrints /\ GetPrintStats
    \/ Sigint
    \/ \E failed \in BOOLEAN : DbCountDone(failed)
    \/ \E t \in Instants : Outstanding(MaxStatsReqs) /\ Advance(t)

SpecStats == Init /\ [][NextStats]_vars

\* no call of another request than r has failed
OnlyFailing(r) ==
    \A q \in ReqIds \ {r} : handler[q].waits = <<>> /\ handler[q].servedBy # "error"

\* the upstream settles the axios.post of request r: it answers, or the call
\* is rejected in the millisecond it is made (the calls of one request are)
Settles(r) ==
    \/ \E again \in HeadersSentOutcomes : UpstreamResponds(r, "0x1", again)
    \/ /\ handler[r].issuedAt = now
       /\ OnlyFailing(r)
       /\ UpstreamFails(r, [response |-> "503", request |-> "sent"])

\* the bodies of SpecLive: one whose result is cached, and with build part_000
\* the one whose cache-write predicate throws
LiveBodies == {b \in Bodies : b.method = "eth_chainId" \/ ShouldCacheThrows(b)}

TimePasses == \E t \in Instants : Outstanding(MaxLiveReqs) /\ Advance(t)

\* SpecLive: MaxLiveReqs requests at any time and an upstream that may fail
\* every call of one of them.  The event loop runs every callback that is due and
\* time passes: a timer that is due fires, the sqlite driver answers every
\* query, every axios.post is settled.
NextLive ==
    \/ \E r \in 1..MaxLiveReqs, body \in LiveBodies : Receive(r, body)
    \/ \E r \in ReqIds : DelayElapsed(r)
    \/ \E r \in ReqIds : DbGetDone(r, FALSE)
    \/ \E r \in ReqIds : Settles(r)
    \/ \E r \in ReqIds : BackoffElapsed(r)
    \/ DbRunDone(FALSE)
    \/ TimePasses

Fairness ==
    /\ \A r \in 1..MaxLiveReqs :
          /\ WF_vars(r \in ReqIds /\ DelayElapsed(r))
          /\ WF_vars(r \in ReqIds /\ DbGetDone(r, FALSE))
          /\ WF_vars(r \in ReqIds /\ Settles(r))
          /\ WF_vars(r \in ReqIds /\ BackoffElapsed(r))
    /\ WF_vars(DbRunDone(FALSE))
    /\ WF_vars(TimePasses)

SpecLive == Init /\ [][NextLive]_vars /\ Fairness

\* the bodies of SpecProv: a call whose result both builds cache, and two
\* eth_call requests that differ in their params only
ProvBodies == {b \in Bodies : b.method \in {"eth_chainId", "eth_call"}}

\* the results of SpecProv
ProvResults == {"0x1", "0x2"}

\* SpecProv: MaxProvReqs requests of one method at any time, to which the
\* upstream gives one of two results, with the in-memory cache (with a db no
\* lookup is a hit)
NextProv ==
    \/ \E r \in 1..MaxProvReqs, body \in ProvBodies :
          /\ ~dbDefined
          /\ r = Len(handler) + 1
          /\ r > 1 => body.method = handler[1].body.method
          /\ Receive(r, body)
    \/ \E r \in ReqIds : DelayElapsed(r)
    \/ \E r \in ReqIds, result \in ProvResults, again \in HeadersSentOutcomes :
          UpstreamResponds(r, result, again)
    \/ \E t \in Instants : Outstanding(MaxProvReqs) /\ Advance(t)

SpecProv == Init /\ [][NextProv]_vars

(***************************************************************************)
(* Properties.                                                             *)
(***************************************************************************)
Nullish(v) == v = NULL \/ v = UNDEFINED

\* the requests answered with the error of a given-up upstream call
Failed == {r \in ReqIds : handler[r].servedBy = "error"}

C8_WaitsDouble ==
    \A r \in ReqIds :
        LET h == handler[r]
        IN  /\ h.attempts >= 1 =>
                 Len(h.waits) = IF h.pc = "backoff" THEN h.attempts ELSE h.attempts - 1
            /\ Len(h.waits) >= 1 => h.waits[1] = 2000
            /\ \A i \in 2..Len(h.waits) : h.waits[i] = 2 * h.waits[i - 1]
            /\ h.pc = "backoff" =>
                 /\ h.forwardedErr \in {forwardedErrOf(e) : e \in AxiosErrors}
                 /\ h.wakeAt - h.failedAt = h.waits[Len(h.waits)]

C8_RetryAfterWait ==
    \A r \in ReqIds :
        handler'[r].attempts > handler[r].attempts /\ handler[r].attempts >= 1 =>
            /\ handler[r].pc = "backoff"
            /\ now - handler[r].failedAt >= handler[r].waits[Len(handler[r].waits)]

C9_LastFailureSurfaced ==
    \A r \in Failed : handler[r].res.error = handler[r].forwardedErr

\* C10: when an upstream call fails terminally the client receives an error
\* response with status 500, no cache entry is written or changed, and the
\* upstream-forward counter is not incremented.
C10_ErrorAnswered ==
    /\ \A r \in Failed : handler[r].res.status = 500 /\ handler[r].res.error # <<>>
    /\ httpUpstreamResCnt = Cardinality({r \in ReqIds : handler[r].servedBy = "upstream"})

C10_FailureStep ==
    \A r \in ReqIds :
        handler[r].pc = "upstream" /\ handler'[r].servedBy = "error" =>
            /\ cache' = cache
            /\ dbQueue' = dbQueue
            /\ dbData' = dbData
            /\ httpUpstreamResCnt' = httpUpstreamResCnt

C10_TerminalFailure == []C10_ErrorAnswered /\ [][C10_FailureStep]_vars

\* a request failed terminally while the cache (or the table) holds an entry
\* for its key, written for an earlier request
C10_Witness ==
    \E r \in Failed :
        \/ handler[r].cacheKey \in DOMAIN cache
        \/ handler[r].cacheKey \in DOMAIN dbData

(***************************************************************************)
(* Bursts of identical requests, and the cache as the requests see it.     *)
(***************************************************************************)
\* the requests received so far with cache key k, and the first of them
Group(k) == {r \in ReqIds : handler[r].cacheKey = k}
First(k) == CHOOSE r \in Group(k) : \A q \in Group(k) : r <= q
Forwarded(k) == {r \in Group(k) : handler[r].servedBy = "upstream"}

\* the requests with key k are one burst: all answered, all arrived less than
\* the trigger threshold after the first, which met no record of an earlier one
Burst(k) ==
    /\ Cardinality(Group(k)) >= 2
    /\ \A r \in Group(k) :
          /\ handler[r].pc = "done"
          /\ handler[r].arrivedAt - handler[First(k)].arrivedAt
                < DUPLICATE_DELAY_TRIGGER_THRESHOLD_MS

\* C1 (as stated): of N >= 2 identical requests for a cacheable method that all
\* arrive within the trigger threshold, with the upstream answering each call
\* it gets with a result, exactly one is forwarded to the upstream and the
\* other N-1 are answered from the cache.
C1_ExactlyOneForwarded ==
    \A k \in Keys :
        ( /\ Burst(k)
          /\ \A r \in Group(k) : ShouldCache(handler[r].body)
          /\ \A r \in Forwarded(k) : ~Nullish(handler[r].res.result) )
        => /\ Cardinality(Forwarded(k)) = 1
           /\ \A r \in Group(k) \ Forwarded(k) : handler[r].servedBy = "cache"

\* C1 (amended): of N >= 2 identical requests that all arrive within the trigger
\* threshold, the first is forwarded to the upstream without delay and each of
\* the others is delayed by 500..1499 ms and then answered from the cache only
\* if the result forwarded for another one of them has been cached by then, and
\* is forwarded as well otherwise: at least one and possibly all are forwarded.
C1_FirstForwardedOthersDelayed ==
    \A k \in Keys :
        ( /\ Group(k) # {}
          /\ \A r \in Group(k) :
                handler[r].arrivedAt - handler[First(k)].arrivedAt
                  < DUPLICATE_DELAY_TRIGGER_THRESHOLD_MS )
        => \A r \in Group(k) :
             IF r = First(k)
             THEN /\ handler[r].delayMs = 0
                  /\ handler[r].servedBy # "cache"
                  /\ handler[r].pc # "dbread" => handler[r].attempts >= 1
             ELSE /\ handler[r].delayMs \in 500..1499
                  /\ handler[r].servedBy = "cache" =>
                        \E q \in Forwarded(k) :
                            /\ q # r
                            /\ ~Nullish(handler[q].res.result)
                            /\ handler[q].res.result = handler[r].res.result
                  /\ handler[r].servedBy \in {"", "cache", "upstream"}

\* a burst of three identical requests ended with one of them answered from the
\* cache and the two others forwarded
C1_Witness ==
    \E k \in Keys :
        /\ Burst(k)
        /\ Cardinality(Group(k)) = 3
        /\ Cardinality(Forwarded(k)) = 2
        /\ \E r \in Group(k) : handler[r].servedBy = "cache"

\* C2: a request is delayed if and only if an earlier request with the same
\* cache key arrived less than 1000 ms before it, and every delay applied is a
\* whole number of ms in [500, 1500).
C2_DelayedIffRecentArrival ==
    \A r \in ReqIds :
        /\ handler[r].delayMs > 0 <=>
              \E q \in ReqIds :
                  /\ q < r
                  /\ handler[q].cacheKey = handler[r].cacheKey
                  /\ handler[r].arrivedAt - handler[q].arrivedAt
                        < DUPLICATE_DELAY_TRIGGER_THRESHOLD_MS
        /\ handler[r].delayMs > 0 => handler[r].delayMs \in 500..1499

\* C3: a cache entry whose value is null or absent is never served as a cache
\* hit; the request is forwarded to the upstream.
C3_NullNeverServed ==
    \A r \in ReqIds : handler[r].servedBy = "cache" => ~Nullish(handler[r].res.result)

\* request r ends its cache lookup in this step: it is answered from the cache
\* or its upstream call starts
LookupEnds(r) ==
    /\ r \in DOMAIN handler'
    /\ handler'[r].pc \in {"upstream", "done"}
    /\ r \in DOMAIN handler => handler[r].pc \in {"delay", "dbread"}

\* what the active backing holds for key k
Stored(k) == IF dbDefined THEN k \in DOMAIN dbData ELSE k \in DOMAIN cache
StoredVal(k) == IF dbDefined THEN JSONparse(dbData[k].val) ELSE cache[k].val
StoredTs(k) == IF dbDefined THEN dbData[k].ts ELSE cache[k].ts
StoredNonNull(k) == Stored(k) /\ ~Nullish(StoredVal(k))

\* C4: for eth_chainId and net_version, once a non-null upstream result is in
\* the cache, every later request with the same method and params is answered
\* from the cache, whatever time has passed since the write.
C4_LookupOfImmutable ==
    \A r \in DOMAIN handler' :
        ( /\ LookupEnds(r)
          /\ handler'[r].body.method \in {"eth_chainId", "net_version"}
          /\ StoredNonNull(handler'[r].cacheKey) )
        => handler'[r].servedBy = "cache"

C4_ImmutableAlwaysHit == [][C4_LookupOfImmutable]_vars

\* C5: for eth_blockNumber a cached entry is served if and only if
\* now - writtenAt <= CACHE_MAX_AGE*1000; a request that finds it older is
\* forwarded to the upstream and its result replaces the entry.
C5_LookupOfVolatile ==
    \A r \in DOMAIN handler' :
        ( /\ LookupEnds(r)
          /\ handler'[r].body.method = "eth_blockNumber"
          /\ StoredNonNull(handler'[r].cacheKey) )
        => ( handler'[r].servedBy = "cache"
               <=> now - StoredTs(handler'[r].cacheKey) <= CACHE_MAX_AGE * 1000 )

C5_ForwardedReplaces ==
    \A r \in ReqIds :
        ( /\ handler[r].pc = "upstream"
          /\ handler'[r].servedBy = "upstream"
          /\ handler[r].body.method = "eth_blockNumber" )
        => IF dbDefined
           THEN /\ dbQueue' # <<>>
                /\ dbQueue'[Len(dbQueue')].key = handler[r].cacheKey
                /\ dbQueue'[Len(dbQueue')].val = JSONstringify(handler'[r].res.result)
           ELSE /\ cache'[handler[r].cacheKey].val = handler'[r].res.result
                /\ cache'[handler[r].cacheKey].ts = now

C5_TtlExpiry == [][C5_LookupOfVolatile /\ C5_ForwardedReplaces]_vars

\* C6: with whichever backing is active, a non-null result written by the
\* cache-write path and read back within its max age is returned as a hit whose
\* result is the one forwarded to the client by the request that wrote it.
C6_LookupWithinMaxAge ==
    \A r \in DOMAIN handler' :
        ( /\ LookupEnds(r)
          /\ StoredNonNull(handler'[r].cacheKey)
          /\ Fresh(StoredTs(handler'[r].cacheKey),
                   cacheMaxAgeMs(handler'[r].body.method)) )
        => /\ handler'[r].servedBy = "cache"
           /\ handler'[r].res.result = StoredVal(handler'[r].cacheKey)
           /\ \E q \in ReqIds :
                 /\ handler[q].cacheKey = handler'[r].cacheKey
                 /\ handler[q].servedBy = "upstream"
                 /\ handler[q].res.result = handler'[r].res.result

C6_RoundTrip == [][C6_LookupWithinMaxAge]_vars

(***************************************************************************)
(* Cache hits, printStats, the method policy.                              *)
(***************************************************************************)
\* request r is answered from the cache in this step
ServedFromCacheNow(r) ==
    /\ r \in DOMAIN handler'
    /\ handler'[r].servedBy = "cache"
    /\ r \in DOMAIN handler => handler[r].servedBy # "cache"

\* request r is answered with the upstream's response in this step
ServedFromUpstreamNow(r) ==
    /\ r \in DOMAIN handler
    /\ handler[r].servedBy # "upstream"
    /\ handler'[r].servedBy = "upstream"

\* C11: on a cache hit the response carries the id of the request being
\* answered and the cached value as result, the cache-hit counter grows by one,
\* and no upstream call is made for that request.
C11_HitStep ==
    \A r \in DOMAIN handler' :
        ServedFromCacheNow(r) =>
            /\ handler'[r].res.status = 200
            /\ handler'[r].res.id = handler'[r].id
            /\ handler'[r].res.result = StoredVal(handler'[r].cacheKey)
            /\ handler'[r].res.error = <<>>
            /\ httpCacheResCnt' = httpCacheResCnt + 1
            /\ httpUpstreamResCnt' = httpUpstreamResCnt
            /\ handler'[r].attempts = 0

C11_CacheHitEnvelope == [][C11_HitStep]_vars

\* a request was answered from the cache with its own id and the result that
\* another request, with another id, had put there
C11_Witness ==
    \E r \in ReqIds, q \in ReqIds :
        /\ handler[r].servedBy = "cache"
        /\ handler[q].servedBy = "upstream"
        /\ handler[q].cacheKey = handler[r].cacheKey
        /\ handler[q].res.id # handler[r].res.id
        /\ handler[r].res.id = handler[r].id
        /\ handler[r].res.result = handler[q].res.result
        /\ httpCacheResCnt = 1

\* C12: GET /printstats prints the counters and does not terminate the process;
\* only SIGINT prints the stats and then exits.
C12_PrintStatsStep ==
    ( /\ Len(stdout') > Len(stdout)
      /\ stdout'[Len(stdout')].trigger = "GET /printstats" )
    => running'

C12_PrintStatsKeepsRunning == [][C12_PrintStatsStep]_vars

\* an eth_call one of whose params is an object with a blockHash
PinnedCall(body) ==
    /\ body.method = "eth_call"
    /\ \E i \in 1..Len(body.params) :
          ~IsNullParam(body.params[i]) /\ HasBlockHash(body.params[i])

\* C13: for an eth_call whose params pin a block the lookup uses an infinite max
\* age: once its result is cached, a later identical call is a cache hit
\* whatever time has passed, also beyond CACHE_MAX_AGE.
C13_LookupOfPinnedCall ==
    \A r \in DOMAIN handler' :
        ( /\ LookupEnds(r)
          /\ PinnedCall(handler'[r].body)
          /\ StoredNonNull(handler'[r].cacheKey) )
        => handler'[r].servedBy = "cache"

C13_PinnedCallAlwaysHit == [][C13_LookupOfPinnedCall]_vars

\* the active backing is handed val for key k in this step
WrittenNow(k, val) ==
    IF dbDefined
    THEN /\ Len(dbQueue') = Len(dbQueue) + 1
         /\ dbQueue'[Len(dbQueue')].key = k
         /\ dbQueue'[Len(dbQueue')].val = JSONstringify(val)
    ELSE /\ k \in DOMAIN cache'
         /\ cache'[k].val = val
         /\ cache'[k].ts = now
         /\ cache'[k].writeCnt = (IF k \in DOMAIN cache THEN cache[k].writeCnt ELSE 0) + 1

\* nothing is handed to the active backing in this step
NothingWrittenNow ==
    /\ dbQueue' = dbQueue \/ Len(dbQueue') < Len(dbQueue)
    /\ \A k \in DOMAIN cache' :
          k \in DOMAIN cache /\ cache'[k].writeCnt = cache[k].writeCnt

\* C14: a non-null eth_getTransactionReceipt result returned by the upstream is
\* written to the cache and later identical calls are served from it with
\* infinite max age; a null receipt leaves the key without a servable entry.
C14_ReceiptStep ==
    \A r \in DOMAIN handler' :
        handler'[r].body.method = "eth_getTransactionReceipt" =>
            /\ ( ServedFromUpstreamNow(r) /\ ~Nullish(handler'[r].res.result) )
                  => WrittenNow(handler'[r].cacheKey, handler'[r].res.result)
            /\ ( LookupEnds(r) /\ StoredNonNull(handler'[r].cacheKey) )
                  => handler'[r].servedBy = "cache"
            /\ ServedFromCacheNow(r) => ~Nullish(handler'[r].res.result)

C14_ReceiptsCached == [][C14_ReceiptStep]_vars

\* C15: after a successful upstream response the result is written to the cache
\* under the request's key exactly when the method is eth_chainId,
\* eth_blockNumber or net_version, or eth_call with a blockHash-pinned param; for
\* any other method nothing is written and every request is forwarded; an
\* eth_call with blockHash repeated within the max age is a cache hit.
C15_WritePredicate(body) ==
    \/ body.method \in {"eth_chainId", "eth_blockNumber", "net_version"}
    \/ PinnedCall(body)

C15_WriteStep ==
    \A r \in DOMAIN handler' :
        /\ ServedFromUpstreamNow(r) =>
              IF C15_WritePredicate(handler'[r].body)
              THEN WrittenNow(handler'[r].cacheKey, handler'[r].res.result)
              ELSE NothingWrittenNow
        /\ ServedFromCacheNow(r) => C15_WritePredicate(handler'[r].body)
        /\ ( /\ LookupEnds(r)
             /\ PinnedCall(handler'[r].body)
             /\ StoredNonNull(handler'[r].cacheKey)
             /\ Fresh(StoredTs(handler'[r].cacheKey), CACHE_MAX_AGE * 1000) )
           => handler'[r].servedBy = "cache"

C15_CacheWritePredicate == [][C15_WriteStep]_vars

\* C16: the duplicate record of a key is set to the arrival time of a request
\* when the request arrives, before its delay elapses.
C16_ArrivalStep ==
    \A r \in DOMAIN handler' \ DOMAIN handler :
        /\ handler'[r].cacheKey \in DOMAIN duplicateDetector'
        /\ duplicateDetector'[handler'[r].cacheKey] = handler'[r].arrivedAt

C16_RecordSetAtArrival == [][C16_ArrivalStep]_vars

\* C17: a failed read of the durable store is treated as a cache miss (the
\* request is forwarded to the upstream) and a failed write is a lost write; in
\* neither case does the client get an error response or a response different
\* from the upstream's.
C17_ReadFailureStep ==
    \A r \in ReqIds :
        ( handler[r].pc = "dbread" /\ <<"DB read error", r>> \in stderr' )
        => /\ handler'[r].pc = "upstream"
           /\ handler'[r].attempts = 1
           /\ handler'[r].res = NoRes

C17_WriteFailureStep ==
    (\E k \in Keys : <<"db.run", k>> \in stderr' \ stderr)
    => /\ dbData' = dbData
       /\ handler' = handler

C17_NoErrorResponse ==
    \A r \in ReqIds :
        /\ handler[r].servedBy # "error"
        /\ handler[r].pc = "done" =>
              /\ handler[r].res.status = 200
              /\ handler[r].servedBy = "upstream" => handler[r].res = handler[r].rpcRes

C17_StoreFailuresRecovered ==
    []C17_NoErrorResponse /\ [][C17_ReadFailureStep /\ C17_WriteFailureStep]_vars

\* a request whose read of the durable store failed and whose write was lost
\* has been answered with the upstream's response
C17_Witness ==
    \E r \in ReqIds :
        /\ <<"DB read error", r>> \in stderr
        /\ <<"db.run", handler[r].cacheKey>> \in stderr
        /\ handler[r].cacheKey \notin DOMAIN dbData
        /\ handler[r].servedBy = "upstream"
        /\ handler[r].res.status = 200
        /\ handler[r].res = handler[r].rpcRes

\* C18: on a cache miss with a successful upstream call the upstream response
\* body is sent to the client unmodified, and it is sent before the cache write
\* for that request takes place; a failure of the cache write cannot change or
\* retract the response.
C18_ResponseStep ==
    /\ \A r \in ReqIds :
          /\ ServedFromUpstreamNow(r) =>
                /\ handler'[r].res = handler'[r].rpcRes
                /\ handler'[r].res.status = 200
                /\ handler'[r].res.id = handler[r].id
          \* a response that has been sent stays as it is
          /\ handler[r].pc = "done" => handler'[r].res = handler[r].res
    \* a row reaches the table, or its write fails, after the response
    /\ Len(dbQueue') < Len(dbQueue)
       => \E r \in ReqIds :
             /\ handler[r].pc = "done"
             /\ handler[r].servedBy = "upstream"
             /\ handler[r].cacheKey = Head(dbQueue).key
             /\ JSONstringify(handler[r].res.result) = Head(dbQueue).val
    \* the map is written in the step that sends the response
    /\ \A k \in DOMAIN cache' :
          (k \notin DOMAIN cache \/ cache'[k].writeCnt # cache[k].writeCnt)
          => \E r \in ReqIds :
                /\ ServedFromUpstreamNow(r)
                /\ handler[r].cacheKey = k
                /\ cache'[k].val = handler'[r].res.result

C18_ResponseBeforeWrite == [][C18_ResponseStep]_vars

\* a request has been answered with the upstream's response while the write of
\* its result is still queued on the db
C18_Witness ==
    \E r \in ReqIds :
        /\ handler[r].servedBy = "upstream"
        /\ handler[r].res = handler[r].rpcRes
        /\ dbQueue # <<>>
        /\ Head(dbQueue).key = handler[r].cacheKey
        /\ Head(dbQueue).val = JSONstringify(handler[r].res.result)

\* C19: in the in-memory cache there is one entry per key; each write replaces
\* the entry, sets writtenAt to a time not earlier than the previous one,
\* increases writeCount by exactly one (1 on the first write) and leaves
\* readCount unchanged; entries are never deleted.
C19_CacheStep ==
    /\ \A k \in DOMAIN cache :
          /\ k \in DOMAIN cache'
          /\ cache'[k].ts >= cache[k].ts
          /\ \/ /\ cache'[k].writeCnt = cache[k].writeCnt
                /\ cache'[k].ts = cache[k].ts
                /\ cache'[k].val = cache[k].val
             \/ /\ cache'[k].writeCnt = cache[k].writeCnt + 1
                /\ cache'[k].readCnt = cache[k].readCnt
                /\ cache'[k].ts = now
    /\ \A k \in DOMAIN cache' \ DOMAIN cache :
          /\ cache'[k].writeCnt = 1
          /\ cache'[k].readCnt = 0
          /\ cache'[k].ts = now

C19_CacheEntries == [][C19_CacheStep]_vars

\* an entry that had been read was written a second time and kept its reads
C19_Witness ==
    \E k \in DOMAIN cache :
        /\ cache[k].writeCnt = 2
        /\ cache[k].readCnt >= 1
        /\ cache[k].ts > 0

\* C20: the readCount of an entry increases by one exactly when the entry is
\* served to a client as a cache hit; a lookup that does not end in a served hit
\* leaves readCount, writeCount, value and writtenAt unchanged.
C20_ReadCountStep ==
    /\ \A k \in DOMAIN cache :
          /\ cache'[k].readCnt \in {cache[k].readCnt, cache[k].readCnt + 1}
          /\ cache'[k].readCnt = cache[k].readCnt + 1
                <=> \E r \in DOMAIN handler' :
                       ServedFromCacheNow(r) /\ handler'[r].cacheKey = k
    /\ \A r \in DOMAIN handler' :
          ( LookupEnds(r) /\ handler'[r].servedBy # "cache" ) => cache' = cache

C20_ReadCountOnServedHit == [][C20_ReadCountStep]_vars


(***************************************************************************)
(* The counters, completion, provenance of cached values.                  *)
(***************************************************************************)
\* the requests whose handler has not run to its end
InFlight == {r \in ReqIds : handler[r].pc # "done"}

\* the requests answered from the cache / with the upstream's response
Hits == {r \in ReqIds : handler[r].servedBy = "cache"}
Forwards == {r \in ReqIds : handler[r].servedBy = "upstream"}

C21_CountersStep ==
    /\ httpReqCnt' >= httpReqCnt
    /\ httpUpstreamResCnt' >= httpUpstreamResCnt
    /\ httpCacheResCnt' >= httpCacheResCnt

C21_Balance ==
    running =>
        /\ httpCacheResCnt + httpUpstreamResCnt <= httpReqCnt
        /\ httpUpstreamResCnt = Cardinality(Forwards)
        /\ InFlight = {} =>
              httpReqCnt = httpCacheResCnt + httpUpstreamResCnt + Cardinality(Failed)

\* C21: while the process runs the three counters never decrease, between
\* handler steps httpCacheResCnt + httpUpstreamResCnt <= httpReqCnt, the
\* upstream counter counts each forwarded request once however many attempts
\* its upstream call made, and once no request is in flight httpReqCnt =
\* httpCacheResCnt + httpUpstreamResCnt + the number of requests answered with
\* an error.
C21_CounterConservation == []C21_Balance /\ [][C21_CountersStep]_vars

C22_CountedOnce ==
    running => httpReqCnt = Cardinality(ReqIds \ InFlight)

C22_AnsweredOnceStep ==
    \A r \in ReqIds :
        handler[r].res # NoRes => handler'[r].res = handler[r].res

C22_Answered(r) ==
    /\ r \in ReqIds
    /\ handler[r].pc = "done"
    /\ handler[r].servedBy \in {"cache", "upstream", "error"}
    /\ handler[r].res.status \in {200, 500}

\* C22: every POST / request that was received is eventually answered (from
\* the cache, with the upstream's response or with an error), whatever other
\* requests are in flight and even when every upstream attempt fails; a
\* response once sent is not followed by another; and httpReqCnt counts the
\* requests that completed, each once.
C22_EveryRequestCompletesOnce ==
    /\ \A r \in 1..MaxLiveReqs : (r \in ReqIds) ~> C22_Answered(r)
    /\ []C22_CountedOnce
    /\ [][C22_AnsweredOnceStep]_vars

\* the method and params of a request body
Call(body) == <<body.method, body.params>>

\* a cache hit serves the value the entry of the request's key holds, and that
\* value is the result of an upstream response to an earlier request with the
\* same method and params
C23_HitStep ==
    \A r \in DOMAIN handler' :
        ServedFromCacheNow(r) =>
            LET b == handler'[r].body
                k == getCacheKey(b)
            IN  /\ k \in DOMAIN cache
                /\ handler'[r].res.result = cache[k].val
                /\ \E q \in Forwards \ {r} :
                      /\ Call(handler[q].body) = Call(b)
                      /\ handler[q].rpcRes.result = handler'[r].res.result

\* the value of an entry changes only when a request with the entry's key is
\* answered by the upstream, and becomes the result of that response
C23_WriteStep ==
    \A k \in DOMAIN cache' :
        (k \notin DOMAIN cache \/ cache'[k].val # cache[k].val
                               \/ cache'[k].writeCnt # cache[k].writeCnt) =>
            \E q \in ReqIds :
                /\ ServedFromUpstreamNow(q)
                /\ getCacheKey(handler'[q].body) = k
                /\ cache'[k].val = handler'[q].rpcRes.result

====
